---- MODULE Spec2Model ----
(***************************************************************************)
(* Model of fuck_phantom_buster.py: one run of main(), i.e. login, page    *)
(* navigation, the scroll-until-stable loop, the table extraction, the CSV *)
(* sink and the browser cleanup.  The browser is an opaque remote          *)
(* resource: every call on it either returns or raises, and what it        *)
(* returns (document heights, the table in the DOM) is an input.           *)
(***************************************************************************)
EXTENDS Integers, Sequences, FiniteSets, TLC

(* ------------------------------ bounds --------------------------------- *)

\* Distinct document heights the page can report (100, 200, ...).
NumHeights == 2

\* Loop iterations of the scroll loop explored by the model.
MaxIters == 32

\* Measurements remembered by the history variable `recent`.
Window == 6

\* Table rows (tr) and table cells (th + td) of the tables explored.
MaxRows == 2

MaxTableCells == 3

(* --------------------------- program constants ------------------------- *)

\* max_scroll_attempts = 30
max_scroll_attempts == 30

\* `if scroll_attempts >= 3: break`
stagnation_threshold == 3

(* ------------------------------- text ---------------------------------- *)

\* A text is a sequence of characters; " " is the whitespace character.
RawTexts == { <<" ">>, <<"a">>, <<" ", "b", " ">> }

RECURSIVE LStrip(_)
LStrip(s) == IF s # <<>> /\ Head(s) = " " THEN LStrip(Tail(s)) ELSE s

RECURSIVE RStrip(_)
RStrip(s) ==
    IF s # <<>> /\ s[Len(s)] = " " THEN RStrip(SubSeq(s, 1, Len(s) - 1)) ELSE s

\* str.strip(): leading and trailing whitespace removed.
strip(s) == RStrip(LStrip(s))

(* ------------------------------ the DOM -------------------------------- *)

\* A table is a sequence of row groups (thead, tbody, ...: the parents of
\* the tr elements); a group is a non-empty sequence of rows; a row holds
\* header cells (th) or data cells (td), each with its raw inner text.
RowsWith(i) == [tag : {"th", "td"}, cells : [1..i -> RawTexts]]

\* The row lists of exactly k rows holding exactly j cells.
RECURSIVE RowLists(_, _)
RowLists(k, j) ==
    IF k = 0 THEN (IF j = 0 THEN {<<>>} ELSE {})
    ELSE UNION { { <<row>> \o rest : row \in RowsWith(i),
                                     rest \in RowLists(k - 1, j - i) }
                 : i \in 0..j }

\* The tables of at most r rows holding at most c cells.
RECURSIVE TablesOf(_, _)
TablesOf(r, c) ==
    {<<>>} \cup
    UNION { { <<g>> \o t : g \in RowLists(k, j), t \in TablesOf(r - k, c - j) }
            : k \in 1..r, j \in 0..c }

Tables == TablesOf(MaxRows, MaxTableCells)

RECURSIVE Flatten(_)
Flatten(ss) == IF ss = <<>> THEN <<>> ELSE Head(ss) \o Flatten(Tail(ss))

\* All tr elements of the table, in document order.
AllRows(t) == Flatten(t)

(* --------------------------- extract_table_data ------------------------ *)

\* page.locator("//table//th").all(): every th of the table, document order.
RECURSIVE ThCells(_)
ThCells(rs) ==
    IF rs = <<>> THEN <<>>
    ELSE (IF Head(rs).tag = "th" THEN Head(rs).cells ELSE <<>>) \o ThCells(Tail(rs))

HeaderCells(t) == ThCells(AllRows(t))

\* for cell in header_cells: text = strip(...); if text: headers.append(text)
RECURSIVE Headers(_)
Headers(header_cells) ==
    IF header_cells = <<>> THEN <<>>
    ELSE LET header_text == strip(Head(header_cells))
         IN  (IF header_text # <<>> THEN <<header_text>> ELSE <<>>)
             \o Headers(Tail(header_cells))

\* page.locator("//table//tr[position()>1]").all(): position() counts a tr
\* among the tr children of its own parent, so the first tr of every row
\* group is left out.
RECURSIVE Rows(_)
Rows(t) == IF t = <<>> THEN <<>> ELSE Tail(Head(t)) \o Rows(Tail(t))

\* row.locator(".//td").all()
Cells(row) == IF row.tag = "td" THEN row.cells ELSE <<>>

\* row_data[key] = value
Put(d, key, value) ==
    [k \in DOMAIN d \cup {key} |-> IF k = key THEN value ELSE d[k]]

\* row_data after the first n cells of the row have been visited.
RECURSIVE RowDataUpTo(_, _, _)
RowDataUpTo(cells, hdrs, n) ==
    IF n = 0 THEN << >>
    ELSE LET d == RowDataUpTo(cells, hdrs, n - 1)
         IN  IF n <= Len(hdrs) THEN Put(d, hdrs[n], strip(cells[n])) ELSE d

RowData(cells, hdrs) == RowDataUpTo(cells, hdrs, Len(cells))

\* `if row_data: data.append(row_data)`
RECURSIVE Data(_, _)
Data(rows, hdrs) ==
    IF rows = <<>> THEN <<>>
    ELSE LET row_data == RowData(Cells(Head(rows)), hdrs)
         IN  (IF DOMAIN row_data # {} THEN <<row_data>> ELSE <<>>)
             \o Data(Tail(rows), hdrs)

\* Where a call on the page raises inside extract_table_data: nowhere,
\* expect(table).to_be_visible (217), reading the header cells (221-226),
\* or reading the rows and their cells (234-242).
FailPoints == {"none", "visible", "headers", "rows"}

\* The outcome when the try block raises: n is len(header_cells), or -1
\* when line 221 did not return; collected tells whether line 234 has run.
Failed(n, collected) ==
    [ok |-> FALSE, n_header_cells |-> n, rows_collected |-> collected,
     headers |-> <<>>, data |-> <<>>]

\* extract_table_data without the `if not header_cells: raise`.
extract_no_check(t, failAt) ==
    IF failAt \in {"visible", "headers"} THEN Failed(-1, FALSE)
    ELSE LET header_cells == HeaderCells(t)
         IN  IF failAt = "rows" THEN Failed(Len(header_cells), TRUE)
             ELSE LET hdrs == Headers(header_cells)
                  IN  [ok |-> TRUE, n_header_cells |-> Len(header_cells),
                       rows_collected |-> TRUE,
                       headers |-> hdrs, data |-> Data(Rows(t), hdrs)]

\* The try block of extract_table_data on table t (lines 215-251).
extract_table_data(t, failAt) ==
    IF failAt \in {"visible", "headers"} THEN Failed(-1, FALSE)
    ELSE LET header_cells == HeaderCells(t)
         IN  IF header_cells = <<>> THEN Failed(0, FALSE)
             ELSE IF failAt = "rows" THEN Failed(Len(header_cells), TRUE)
             ELSE LET hdrs == Headers(header_cells)
                  IN  [ok |-> TRUE, n_header_cells |-> Len(header_cells),
                       rows_collected |-> TRUE,
                       headers |-> hdrs, data |-> Data(Rows(t), hdrs)]

(* ------------------------------ save_to_csv ---------------------------- *)

\* csv.DictWriter's restval: the field written for a key the row lacks.
restval == << >>

\* Record writing the text None for a key the row lacks.
RecordNone(rowdict, fieldnames) ==
    [i \in 1..Len(fieldnames) |->
        IF fieldnames[i] \in DOMAIN rowdict THEN rowdict[fieldnames[i]]
        ELSE <<"N", "o", "n", "e">>]

\* DictWriter._dict_to_list: one field per fieldname, in fieldname order.
Record(rowdict, fieldnames) ==
    [i \in 1..Len(fieldnames) |->
        IF fieldnames[i] \in DOMAIN rowdict THEN rowdict[fieldnames[i]] ELSE restval]

\* writer.writeheader(); writer.writerows(data)
CsvRecords(rows, fieldnames) ==
    <<fieldnames>> \o [k \in 1..Len(rows) |-> Record(rows[k], fieldnames)]

(* ------------------------ scroll_to_load_all_content ------------------- *)

Heights == { 100 * k : k \in 1..NumHeights }

\* LoopBody breaking one equal measurement too early.
LoopBodyEarly(lh, sa, new_height) ==
    IF new_height = lh
    THEN [last_height |-> lh, scroll_attempts |-> sa + 1,
          brk |-> (sa + 1 >= stagnation_threshold - 1)]
    ELSE [last_height |-> new_height, scroll_attempts |-> 0, brk |-> FALSE]

\* LoopBody without the reset of the counter on a changed height.
LoopBodyNoReset(lh, sa, new_height) ==
    IF new_height = lh
    THEN [last_height |-> lh, scroll_attempts |-> sa + 1,
          brk |-> (sa + 1 >= stagnation_threshold)]
    ELSE [last_height |-> new_height, scroll_attempts |-> sa, brk |-> FALSE]

\* The body of the while loop after new_height has been measured.
LoopBody(lh, sa, new_height) ==
    IF new_height = lh
    THEN [last_height |-> lh, scroll_attempts |-> sa + 1,
          brk |-> (sa + 1 >= stagnation_threshold)]
    ELSE [last_height |-> new_height, scroll_attempts |-> 0, brk |-> FALSE]

\* while scroll_attempts < max_scroll_attempts
LoopCond(sa) == sa < max_scroll_attempts

\* The last Window measurements, the newest last.
Remember(hist, h) ==
    LET all == Append(hist, h)
    IN  IF Len(all) > Window THEN Tail(all) ELSE all

(* ------------------------------- state --------------------------------- *)

VARIABLES
    pc,              \* position of main()
    acquired,        \* browser, context and page have been acquired
    started,         \* stages started, in order
    completed,       \* stages that returned normally, in order
    failure,         \* the exception propagating out of the pipeline
    origin,          \* the stage whose failure was raised first
    tried,           \* stages whose except block called page.screenshot
    captures,        \* diagnostic files written
    closed,          \* close() calls that returned, in order
    exit_code,       \* -1 while the process runs
    last_height,     \* locals of scroll_to_load_all_content
    scroll_attempts,
    iters,           \* history: loop iterations executed
    recent,          \* history: the last Window height measurements
    table,           \* the table extract_table_data read from the DOM
    n_header_cells,  \* len(header_cells), -1 before line 221 has returned
    rows_collected,  \* line 234 has run
    headers,         \* locals of main()
    data,
    save_calls,      \* calls of save_to_csv
    file             \* data/<type>_data.csv

vars == << pc, acquired, started, completed, failure, origin, tried, captures,
           closed, exit_code, last_height, scroll_attempts, iters, recent,
           table, n_header_cells, rows_collected, headers, data, save_calls, file >>

scrollVars == << last_height, scroll_attempts, iters, recent >>

extractVars == << table, n_header_cells, rows_collected, headers, data >>

Stages == << "login", "materialize", "extract", "write" >>

NoFile == [exists |-> FALSE, records |-> <<>>]

Init ==
    /\ pc = "start"
    /\ acquired = FALSE
    /\ started = <<>>
    /\ completed = <<>>
    /\ failure = "none"
    /\ origin = "none"
    /\ tried = {}
    /\ captures = {}
    /\ closed = <<>>
    /\ exit_code = -1
    /\ last_height = 0
    /\ scroll_attempts = 0
    /\ iters = 0
    /\ recent = <<>>
    /\ table = <<>>
    /\ n_header_cells = -1
    /\ rows_collected = FALSE
    /\ headers = <<>>
    /\ data = <<>>
    /\ save_calls = 0
    /\ file = NoFile

\* Raise with the exception swallowed: the pipeline goes on to the next step.
Swallow(stage, exc) ==
    /\ pc' = CASE stage = "login" -> "goto"
               [] stage = "navigation" -> "scroll_begin"
               [] stage = "materialize" -> "extract"
               [] stage = "extract" -> "save"
               [] OTHER -> "cleanup"
    /\ failure' = exc
    /\ origin' = stage

\* An exception leaves the try block of main(): except prints and re-raises,
\* then the finally block runs.
Raise(stage, exc) ==
    /\ pc' = "cleanup"
    /\ failure' = exc
    /\ origin' = stage

\* scroll_to_load_all_content returns or raises: its locals are gone.
LocalsGone ==
    /\ last_height' = 0
    /\ scroll_attempts' = 0
    /\ iters' = 0
    /\ recent' = <<>>

(* ------------------------------- main() -------------------------------- *)

\* Lines 276-308: credentials check, prompt, browser launch, context, page.
\* Nothing here is inside the try block.
Start ==
    /\ pc = "start"
    /\ \E envOk \in BOOLEAN, launchOk \in BOOLEAN :
          IF envOk /\ launchOk
          THEN /\ pc' = "login"
               /\ acquired' = TRUE
               /\ UNCHANGED << failure, origin, exit_code >>
          ELSE /\ pc' = "exited"
               /\ failure' = IF envOk THEN "launch" ELSE "config"
               /\ origin' = "start"
               /\ exit_code' = 1
               /\ UNCHANGED acquired
    /\ UNCHANGED << started, completed, tried, captures, closed, save_calls, file >>
    /\ UNCHANGED scrollVars
    /\ UNCHANGED extractVars

\* login_to_phantombuster: goto, the three selector searches, fill, click,
\* wait_for_url; on any failure a screenshot, then the HTML dump, both inside
\* their own try/except, then the original exception is re-raised.
Login ==
    /\ pc = "login"
    /\ started' = Append(started, "login")
    /\ \E gotoOk \in BOOLEAN, email_input \in BOOLEAN, password_input \in BOOLEAN,
          login_button \in BOOLEAN, urlOk \in BOOLEAN,
          shotOk \in BOOLEAN, htmlOk \in BOOLEAN :
          IF gotoOk /\ email_input /\ password_input /\ login_button /\ urlOk
          THEN /\ pc' = "goto"
               /\ completed' = Append(completed, "login")
               /\ UNCHANGED << failure, origin, tried, captures >>
          ELSE /\ Raise("login", "login")
               /\ tried' = tried \cup {"login"}
               /\ captures' = captures \cup
                     (IF shotOk THEN {"login_error.png"} ELSE {}) \cup
                     (IF shotOk /\ htmlOk THEN {"error_page.html"} ELSE {})
               /\ UNCHANGED completed
    /\ UNCHANGED << acquired, closed, exit_code, save_calls, file >>
    /\ UNCHANGED scrollVars
    /\ UNCHANGED extractVars

\* Lines 314-316: page.goto(target_url) and the wait for network idle.
Navigate ==
    /\ pc = "goto"
    /\ \E ok \in BOOLEAN :
          IF ok
          THEN pc' = "scroll_begin" /\ UNCHANGED << failure, origin >>
          ELSE Raise("navigation", "navigation")
    /\ UNCHANGED << acquired, started, completed, tried, captures, closed,
                    exit_code, save_calls, file >>
    /\ UNCHANGED scrollVars
    /\ UNCHANGED extractVars

\* Lines 175-185: wait for idle, wait for //table, first measurement.  The
\* except block of this function prints and re-raises; it captures nothing.
ScrollBegin ==
    /\ pc = "scroll_begin"
    /\ started' = Append(started, "materialize")
    /\ \/ /\ Raise("materialize", "materialize")
          /\ UNCHANGED scrollVars
       \/ \E h \in Heights :
             /\ pc' = "scroll_loop"
             /\ last_height' = h
             /\ scroll_attempts' = 0
             /\ iters' = 0
             /\ recent' = <<h>>
             /\ UNCHANGED << failure, origin >>
    /\ UNCHANGED << acquired, completed, tried, captures, closed, exit_code,
                    save_calls, file >>
    /\ UNCHANGED extractVars

\* Lines 187-202: the loop test and one pass of the loop body.
ScrollIter ==
    /\ pc = "scroll_loop"
    /\ iters < MaxIters
    /\ IF ~LoopCond(scroll_attempts)
       THEN /\ pc' = "scroll_finished"
            /\ UNCHANGED << failure, origin >>
            /\ UNCHANGED scrollVars
       ELSE \/ /\ Raise("materialize", "materialize")
               /\ LocalsGone
            \/ \E new_height \in Heights :
                  LET r == LoopBody(last_height, scroll_attempts, new_height)
                  IN  /\ last_height' = r.last_height
                      /\ scroll_attempts' = r.scroll_attempts
                      /\ iters' = iters + 1
                      /\ recent' = Remember(recent, new_height)
                      /\ pc' = IF r.brk THEN "scroll_finished" ELSE "scroll_loop"
                      /\ UNCHANGED << failure, origin >>
    /\ UNCHANGED << acquired, started, completed, tried, captures, closed,
                    exit_code, save_calls, file >>
    /\ UNCHANGED extractVars

\* Line 204 and the return: the locals of the function go out of scope.
ScrollReturn ==
    /\ pc = "scroll_finished"
    /\ pc' = "extract"
    /\ completed' = Append(completed, "materialize")
    /\ LocalsGone
    /\ UNCHANGED << acquired, started, failure, origin, tried, captures, closed,
                    exit_code, save_calls, file >>
    /\ UNCHANGED extractVars

\* extract_table_data: the try block, and on failure the except block, which
\* takes a screenshot outside any try (its exception replaces the original).
Extract ==
    /\ pc = "extract"
    /\ started' = Append(started, "extract")
    /\ \E t \in Tables, failAt \in FailPoints, shotOk \in BOOLEAN :
          LET r == extract_table_data(t, failAt)
          IN  /\ table' = IF r.n_header_cells = -1 THEN <<>> ELSE t
              /\ n_header_cells' = r.n_header_cells
              /\ rows_collected' = r.rows_collected
              /\ headers' = r.headers
              /\ data' = r.data
              /\ IF r.ok
                 THEN /\ pc' = "save"
                      /\ completed' = Append(completed, "extract")
                      /\ UNCHANGED << failure, origin, tried, captures >>
                 ELSE /\ tried' = tried \cup {"extract"}
                      /\ captures' = captures \cup
                            (IF shotOk THEN {"extraction_error.png"} ELSE {})
                      /\ Raise("extract", IF shotOk THEN "extract" ELSE "screenshot")
                      /\ UNCHANGED completed
    /\ UNCHANGED << acquired, closed, exit_code, save_calls, file >>
    /\ UNCHANGED scrollVars

\* save_to_csv: open(file_path, 'w') truncates, DictWriter writes the header
\* and the rows; an I/O error may strike at open or after some records.
Save ==
    /\ pc = "save"
    /\ started' = Append(started, "write")
    /\ save_calls' = save_calls + 1
    /\ LET full == CsvRecords(data, headers)
       IN  \/ /\ file' = [exists |-> TRUE, records |-> full]
              /\ completed' = Append(completed, "write")
              /\ pc' = "cleanup"
              /\ UNCHANGED << failure, origin >>
           \/ /\ UNCHANGED << file, completed >>
              /\ Raise("write", "write")
           \/ \E k \in 0..(Len(full) - 1) :
                 /\ file' = [exists |-> TRUE, records |-> SubSeq(full, 1, k)]
                 /\ UNCHANGED completed
                 /\ Raise("write", "write")
    /\ UNCHANGED << acquired, tried, captures, closed, exit_code >>
    /\ UNCHANGED scrollVars
    /\ UNCHANGED extractVars

\* The finally block (context.close(); browser.close(), no try around either)
\* and the exit of the process: exit(1) when an exception reached __main__.
Cleanup ==
    /\ pc = "cleanup"
    /\ pc' = "exited"
    /\ \E contextOk \in BOOLEAN, browserOk \in BOOLEAN :
          /\ closed' = IF ~contextOk THEN <<>>
                       ELSE IF ~browserOk THEN <<"context">>
                       ELSE <<"context", "browser">>
          /\ failure' = IF contextOk /\ browserOk THEN failure ELSE "close"
          /\ exit_code' = IF failure' = "none" THEN 0 ELSE 1
    /\ UNCHANGED << acquired, started, completed, origin, tried, captures,
                    save_calls, file >>
    /\ UNCHANGED scrollVars
    /\ UNCHANGED extractVars

Next ==
    \/ Start
    \/ Login
    \/ Navigate
    \/ ScrollBegin
    \/ ScrollIter
    \/ ScrollReturn
    \/ Extract
    \/ Save
    \/ Cleanup

Spec == Init /\ [][Next]_vars

(* ------------------------------ properties ----------------------------- *)

Last(q) == q[Len(q)]

Min(a, b) == IF a < b THEN a ELSE b

Range(q) == { q[i] : i \in DOMAIN q }

\* The length of the longest run of equal values that ends the sequence.
RECURSIVE Run(_)
Run(q) ==
    IF Len(q) <= 1 THEN Len(q)
    ELSE IF q[Len(q)] = q[Len(q) - 1] THEN 1 + Run(SubSeq(q, 1, Len(q) - 1))
    ELSE 1

InScroll == pc \in {"scroll_loop", "scroll_finished"}

\* The measurements taken inside the loop, while all of them are remembered.
LoopMeasurements == IF Len(recent) = iters + 1 THEN Tail(recent) ELSE <<>>

Extracted == Len(completed) >= 3

Written == Len(completed) = 4

\* C1: the scroll loop ends within 30 iterations whatever heights the page
\* reports, a page that never stabilizes included.
C1_EndsWithin30 == iters <= max_scroll_attempts

\* C2 as stated: the loop stops exactly when the counter reaches 3, a
\* differing measurement resets the counter and is recorded, and for the
\* measurements [100,200,200,200] the loop has stopped at iteration 4.
C2_AsStated ==
    /\ (pc = "scroll_finished" => scroll_attempts = stagnation_threshold)
    /\ (pc = "scroll_loop" => scroll_attempts < stagnation_threshold)
    /\ (InScroll /\ Len(recent) >= 2 /\ Last(recent) # recent[Len(recent) - 1]
          => scroll_attempts = 0 /\ last_height = Last(recent))
    /\ (iters = 4 /\ LoopMeasurements = <<100, 200, 200, 200>>
          => pc = "scroll_finished")

\* C2 amended: the loop stops exactly when the counter reaches 3, i.e. on the
\* third consecutive measurement equal to the recorded height, never sooner;
\* a differing measurement resets the counter to 0 and is recorded; for the
\* measurements [100,200,200,200] the loop is still running after iteration
\* 4 with the counter at 2, and a fifth measurement of 200 stops it at
\* iteration 5.
C2_StopsOnThirdEqual ==
    /\ (pc = "scroll_finished" =>
          /\ scroll_attempts = stagnation_threshold
          /\ Run(recent) = stagnation_threshold + 1)
    /\ (pc = "scroll_loop" =>
          /\ scroll_attempts < stagnation_threshold
          /\ Run(recent) <= stagnation_threshold)
    /\ (InScroll /\ Len(recent) >= 2 /\ Last(recent) # recent[Len(recent) - 1]
          => scroll_attempts = 0 /\ last_height = Last(recent))
    /\ (iters = 4 /\ LoopMeasurements = <<100, 200, 200, 200>>
          => pc = "scroll_loop" /\ scroll_attempts = 2)
    /\ (iters = 5 /\ LoopMeasurements = <<100, 200, 200, 200, 200>>
          => pc = "scroll_finished")

C2_Witness ==
    /\ pc = "scroll_finished"
    /\ iters = 5
    /\ LoopMeasurements = <<100, 200, 200, 200, 200>>

\* C3: once browser, context and page are acquired, the process never exits
\* without context.close() and then browser.close() having completed.
C3_ClosedOnEveryExit ==
    (pc = "exited" /\ acquired) => closed = <<"context", "browser">>

\* The trimmed text of every header cell, in document order.
AllNames(t) == [i \in 1..Len(HeaderCells(t)) |-> strip(HeaderCells(t)[i])]

\* Row d pairs the i-th name with the i-th cell for every i the row and the
\* names both have, and holds no other key.
PairsUp(d, names, cells) ==
    LET n == Min(Len(names), Len(cells))
    IN  /\ DOMAIN d = { names[i] : i \in 1..n }
        /\ \A i \in 1..n : d[names[i]] = strip(cells[i])

\* C4: the column names are the trimmed texts of all header cells, and every
\* returned row pairs the i-th name with the i-th data cell of its table row.
C4_AllHeaderCellsByPosition ==
    Extracted =>
       /\ headers = AllNames(table)
       /\ \A k \in 1..Len(data) :
             \E r \in 1..Len(AllRows(table)) :
                PairsUp(data[k], AllNames(table), Cells(AllRows(table)[r]))

\* C5: one returned row for each table row other than the first.
C5_OneRowPerTableRow ==
    Extracted => Len(data) = Len(AllRows(table)) - 1

\* C6: for rows whose keys are all among the headers, save_to_csv writes
\* len(rows)+1 records, the headers first, then for each row one record of
\* len(headers) fields in header order, a missing key giving an empty field
\* and never the text None.
C6_CsvRecords ==
    (Written /\ \A k \in 1..Len(data) : DOMAIN data[k] \subseteq Range(headers)) =>
       /\ file.exists
       /\ Len(file.records) = Len(data) + 1
       /\ file.records[1] = headers
       /\ \A k \in 1..Len(data) :
             /\ Len(file.records[k + 1]) = Len(headers)
             /\ \A i \in 1..Len(headers) :
                   /\ headers[i] \in DOMAIN data[k]
                        => file.records[k + 1][i] = data[k][headers[i]]
                   /\ headers[i] \notin DOMAIN data[k]
                        => file.records[k + 1][i] = << >>

C6_Witness ==
    /\ Written
    /\ \E k \in 1..Len(data) : \E i \in 1..Len(headers) :
          /\ headers[i] \notin DOMAIN data[k]
          /\ file.records[k + 1][i] = << >>
          /\ Len(file.records[k + 1]) = 2

\* C7: when the page yields no header cell, extract_table_data raises before
\* any row is collected, the run ends in failure and save_to_csv is never
\* called, so the result file is not touched.
C7_NoHeadersNoFile ==
    n_header_cells = 0 =>
       /\ ~rows_collected
       /\ failure # "none"
       /\ pc \in {"cleanup", "exited"}
       /\ (pc = "exited" => exit_code = 1)
       /\ save_calls = 0
       /\ file = NoFile
       /\ "write" \notin Range(started)

C7_Witness ==
    /\ n_header_cells = 0
    /\ table # <<>>
    /\ pc = "exited"
    /\ exit_code = 1

\* C8: a failure of login, of content materialization or of extraction takes
\* a diagnostic capture before it propagates, and it is the original failure
\* that propagates even when the capture fails.
C8_CaptureOnEveryFailure ==
    origin \in {"login", "materialize", "extract"} =>
       /\ origin \in tried
       /\ (pc = "cleanup" => failure = origin)

IsPrefix(p, q) == Len(p) <= Len(q) /\ SubSeq(q, 1, Len(p)) = p

\* C9: the stages start in the order login, materialize, extract, write, each
\* at most once and only after the one before returned normally; after a
\* failure no stage starts; the file is written only after login,
\* materialization and extraction all returned normally.
C9_StagesInOrder ==
    /\ IsPrefix(started, Stages)
    /\ IsPrefix(completed, started)
    /\ Len(started) <= Len(completed) + 1
    /\ (Len(started) > Len(completed) => pc \in {"scroll_loop", "scroll_finished",
                                                "cleanup", "exited"})
    /\ (failure # "none" => pc \in {"cleanup", "exited"})
    /\ (origin \in Range(Stages) => Last(started) = origin)
    /\ (pc \in {"cleanup", "exited"} /\ acquired /\ origin = "none" => Written)
    /\ save_calls <= 1
    /\ (save_calls = 1 => Extracted)
    /\ (file.exists => Extracted /\ save_calls = 1)

C9_Witness ==
    /\ pc = "exited"
    /\ completed = Stages
    /\ file.exists
    /\ exit_code = 0

\* C10: inside the scroll loop scroll_attempts is in 0..3 and counts the
\* consecutive measurements equal to the recorded height since the last
\* change; it is the counter the loop condition tests against 30, so the
\* test never fails, however many iterations have run.
C10_CounterIsStagnation ==
    InScroll =>
       /\ scroll_attempts \in 0..stagnation_threshold
       /\ last_height = Last(recent)
       /\ scroll_attempts = Run(recent) - 1
       /\ LoopCond(scroll_attempts)

C10_Witness ==
    /\ pc = "scroll_loop"
    /\ iters > max_scroll_attempts
    /\ scroll_attempts = 2

====
